---- MODULE Spec2Model ----
(***************************************************************************)
(* Model of the user-pointer capture Stream of libv4l-rs                   *)
(* (src/src/io/userptr/stream.rs): the Stream's fields, the V4L2 device it *)
(* drives through ioctl and poll, and one action per public operation.     *)
(* Every handler is one atomic action: the library is single threaded and  *)
(* each call runs to completion on the caller's thread.                     *)
(***************************************************************************)
EXTENDS Integers, Sequences, FiniteSets, TLC

\* ------------------------------------------------------------------ bounds

\* Largest buffer count the device grants at construction.
MaxBufs == 2
\* Number of distinct completion reports the device can produce.
MaxSeq == 2
\* Largest number of enumeration indices the device has an answer stored for.
MaxEnum == 3

\* ------------------------------------------------------- program constants

\* The errno the destructor ignores (stream.rs:99).
ENODEV == 19
\* The buffer count Stream::new asks for (stream.rs:48).
DefaultBufCount == 4
\* The poll timeout that stands for "no timeout" (stream.rs:167).
InfiniteWait == -1
\* Largest millisecond count that fits the i32 of `timeout` (stream.rs:22,75).
I32Max == 2147483647

\* ------------------------------------------------------------ io::Result

\* io::Result is a record: kind "Ok", or an io::Error that either carries an
\* OS error code ("Os"), is the TimedOut error built by dequeue, or is an
\* error with no OS error code ("Other").  `val` is the Ok value (an index).
Ok(v) == [kind |-> "Ok", code |-> 0, val |-> v]
OsError(c) == [kind |-> "Os", code |-> c, val |-> 0]
TimedOut == [kind |-> "TimedOut", code |-> 0, val |-> 0]
OtherError == [kind |-> "Other", code |-> 0, val |-> 0]
IsErr(r) == r.kind # "Ok"

\* e.raw_os_error(): Some(code) only for an error made from an OS error.
HasOsCode(e) == e.kind = "Os"

\* Errors a device command or the readiness wait fails with, each made from
\* the errno of the failed call: ENODEV, or some other errno (22 is EINVAL).
OtherErrnos == {22}
DevErrors == {OsError(c) : c \in {ENODEV} \cup OtherErrnos}

\* -------------------------------------------------------------- Metadata

\* Option<i32>
None == [some |-> FALSE, ms |-> 0]
Some(x) == [some |-> TRUE, ms |-> x]
unwrap_or(o, d) == IF o.some THEN o.ms ELSE d

\* Metadata::default()
DefaultMetadata ==
    [bytesused |-> 0, flags |-> 0, field |-> 0,
     timestamp |-> [sec |-> 0, usec |-> 0], sequence |-> 0]

\* The v4l2_buffer a successful VIDIOC_DQBUF fills in for slot `index`.
Report(index, s) ==
    [index |-> index, bytesused |-> 4096 * s, flags |-> 4 * s, field |-> 1 + (s % 2),
     timestamp |-> [tv_sec |-> 100 + s, tv_usec |-> 500 + s], sequence |-> 10 + s]

\* Stream::buffer_desc: a zeroed v4l2_buffer (type and memory, which never
\* change, are left out).
buffer_desc ==
    [index |-> 0, bytesused |-> 0, flags |-> 0, field |-> 0,
     timestamp |-> [tv_sec |-> 0, tv_usec |-> 0], sequence |-> 0]

\* v4l2_buf.flags.into() and v4l2_buf.timestamp.into(): conversions defined
\* outside stream.rs; the specification has them keep the reported values.
flags_into(f) == f
timestamp_into(tv) == [sec |-> tv.tv_sec, usec |-> tv.tv_usec]

\* ----------------------------------------------------------------- state

VARIABLES
    life,         \* "unbuilt", "live", "failed", "dropped", "panicked"
    arena,        \* arena.bufs.len(): the slot count granted by the device
    arena_index,  \* Stream.arena_index
    buf_meta,     \* Stream.buf_meta: slot index -> Metadata
    timeout,      \* Stream.timeout: Option<i32>
    active,       \* Stream.active
    streaming,    \* device: STREAMON accepted and no STREAMOFF accepted since
    queued,       \* device: slots whose QBUF was accepted and not yet dequeued
    call,         \* the latest call: operation, argument, commands issued,
                  \* result, Metadata returned, the v4l2_buffer of its dequeue
    video_dev,    \* device: its answers to an enumeration command, by index
    video_call,   \* the latest enumeration call: operation, indices asked,
                  \* result, entries returned
    pc,           \* where a next() followed statement by statement stands
    done          \* device: queued slots it has completed, ready to dequeue
                  \* (kept only while next() is followed statement by statement)

vars == <<life, arena, arena_index, buf_meta, timeout, active, streaming, queued,
          call, video_dev, video_call, pc, done>>

Slots(n) == 0 .. (n - 1)

\* One device command as issued: `arg` is the slot index of a QBUF or the
\* timeout of a POLL, `ok` whether the device accepted it, `code` the errno it
\* was rejected with (0 when accepted, or when the error carries none), `out`
\* the index a DQBUF reported or the event count of a POLL, `dup` whether a
\* QBUF named a slot the device already held.
Cmd(c, a, r, o, d) ==
    [cmd |-> c, arg |-> a, ok |-> ~IsErr(r), code |-> r.code, out |-> o, dup |-> d]

\* The Stream together with its device while a handler runs: `issued` the
\* commands issued so far, `res` the io::Result of the latest step, `ret` the
\* Metadata a get returned, `v4l2_buf` the local v4l2_buffer of dequeue.
Self ==
    [arena |-> arena, arena_index |-> arena_index, buf_meta |-> buf_meta,
     timeout |-> timeout, active |-> active, streaming |-> streaming,
     queued |-> queued, issued |-> <<>>, res |-> Ok(0), ret |-> DefaultMetadata,
     v4l2_buf |-> buffer_desc, panic |-> FALSE, valid |-> TRUE]

Issue(s, c) == [s EXCEPT !.issued = Append(@, c)]

\* ---------------------------------------------------------------- device

\* Answers of an ioctl: accepted, or rejected with an error.
Accept == Ok(0)
IoctlResp == {Accept} \cup DevErrors

\* A V4L2 device refuses to enqueue a slot it already holds.
DeviceMayAcceptQbuf(s, index) == index \notin s.queued
\* A V4L2 device completes only slots it holds, and only while streaming.
DeviceMayComplete(s, index) == s.streaming /\ index \in s.queued
\* Answers of handle.poll(): Ok(n) with n ready events, or an error.
\* poll() returns 0 only when a timeout was given and it elapsed.
PollResp == {Ok(1), Ok(0)} \cup DevErrors
DeviceMayPoll(ms, p) == (p = Ok(0)) => ms >= 0
\* Answers of VIDIOC_DQBUF: an error, or the filled-in v4l2_buffer.
DqResp(n) ==
    [res : DevErrors, buf : {buffer_desc}]
        \cup [res : {Accept}, buf : {Report(i, q) : i \in Slots(n), q \in 1 .. MaxSeq}]

\* Device side of an accepted command.
DeviceStreamOn(s) == [s EXCEPT !.streaming = TRUE]
\* VIDIOC_STREAMOFF also removes every buffer from the device's queues.
DeviceStreamOff(s) == [s EXCEPT !.streaming = FALSE, !.queued = {}]
DeviceQbuf(s, index) == [s EXCEPT !.queued = @ \cup {index}]
DeviceDqbuf(s, index) == [s EXCEPT !.queued = @ \ {index}]

\* -------------------------------------------------------------- handlers

\* start() with the flag set before the command's answer is looked at.
start_FlagBeforeAnswer(s, resp) ==
    LET s1 == Issue(s, Cmd("STREAMON", 0, resp, 0, FALSE))
    IN  IF IsErr(resp)
        THEN [s1 EXCEPT !.active = TRUE, !.res = resp]
        ELSE [DeviceStreamOn(s1) EXCEPT !.active = TRUE, !.res = Ok(0)]

\* StreamTrait::start
start(s, resp) ==
    LET s1 == Issue(s, Cmd("STREAMON", 0, resp, 0, FALSE))
    IN  IF IsErr(resp)
        THEN [s1 EXCEPT !.res = resp]
        ELSE [DeviceStreamOn(s1) EXCEPT !.active = TRUE, !.res = Ok(0)]

\* stop() with the flag cleared before the command's answer is looked at.
stop_FlagBeforeAnswer(s, resp) ==
    LET s1 == Issue(s, Cmd("STREAMOFF", 0, resp, 0, FALSE))
    IN  IF IsErr(resp)
        THEN [s1 EXCEPT !.active = FALSE, !.res = resp]
        ELSE [DeviceStreamOff(s1) EXCEPT !.active = FALSE, !.res = Ok(0)]

\* stop() returning at once, without the command, when the flag is clear.
stop_ShortCircuitsWhenIdle(s, resp) ==
    IF ~s.active
    THEN [s EXCEPT !.res = Ok(0)]
    ELSE LET s1 == Issue(s, Cmd("STREAMOFF", 0, resp, 0, FALSE))
         IN  IF IsErr(resp)
             THEN [s1 EXCEPT !.res = resp]
             ELSE [DeviceStreamOff(s1) EXCEPT !.active = FALSE, !.res = Ok(0)]

\* StreamTrait::stop
stop(s, resp) ==
    LET s1 == Issue(s, Cmd("STREAMOFF", 0, resp, 0, FALSE))
    IN  IF IsErr(resp)
        THEN [s1 EXCEPT !.res = resp]
        ELSE [DeviceStreamOff(s1) EXCEPT !.active = FALSE, !.res = Ok(0)]

\* queue() answering Ok when the device rejects the descriptor.
queue_SwallowsRejection(s, index, resp) ==
    IF index >= s.arena
    THEN [s EXCEPT !.panic = TRUE]
    ELSE LET s1 == Issue(s, Cmd("QBUF", index, resp, 0, index \in s.queued))
         IN  IF IsErr(resp)
             THEN [s1 EXCEPT !.res = Ok(0)]
             ELSE [DeviceQbuf(s1, index) EXCEPT
                       !.valid = @ /\ DeviceMayAcceptQbuf(s, index),
                       !.res = Ok(0)]

\* CaptureStream::queue.  Indexing arena.bufs out of range panics.
queue(s, index, resp) ==
    IF index >= s.arena
    THEN [s EXCEPT !.panic = TRUE]
    ELSE LET s1 == Issue(s, Cmd("QBUF", index, resp, 0, index \in s.queued))
         IN  IF IsErr(resp)
             THEN [s1 EXCEPT !.res = resp]
             ELSE [DeviceQbuf(s1, index) EXCEPT
                       !.valid = @ /\ DeviceMayAcceptQbuf(s, index),
                       !.res = Ok(0)]

\* The Metadata dequeue builds from the v4l2_buffer.
MetadataOf(buf) ==
    [bytesused |-> buf.bytesused, flags |-> flags_into(buf.flags),
     field |-> buf.field, timestamp |-> timestamp_into(buf.timestamp),
     sequence |-> buf.sequence]

\* The same with the Metadata stored at the index remembered before the call.
dequeue_ioctl_StoresAtOldIndex(s, d) ==
    LET s1 == Issue(s, Cmd("DQBUF", 0, d.res, d.buf.index, FALSE))
    IN  IF IsErr(d.res)
        THEN [s1 EXCEPT !.res = d.res]
        ELSE [DeviceDqbuf(s1, d.buf.index) EXCEPT
                  !.valid = @ /\ DeviceMayComplete(s, d.buf.index),
                  !.v4l2_buf = d.buf,
                  !.arena_index = d.buf.index,
                  !.buf_meta[s.arena_index] = MetadataOf(d.buf),
                  !.res = Ok(d.buf.index)]

\* The same with the remembered index left as it was and returned.
dequeue_ioctl_KeepsRememberedIndex(s, d) ==
    LET s1 == Issue(s, Cmd("DQBUF", 0, d.res, d.buf.index, FALSE))
    IN  IF IsErr(d.res)
        THEN [s1 EXCEPT !.res = d.res]
        ELSE [DeviceDqbuf(s1, d.buf.index) EXCEPT
                  !.valid = @ /\ DeviceMayComplete(s, d.buf.index),
                  !.v4l2_buf = d.buf,
                  !.buf_meta[s.arena_index] = MetadataOf(d.buf),
                  !.res = Ok(s.arena_index)]

\* The same with the index and the Metadata stored from the v4l2_buffer before
\* the command's answer is looked at.
dequeue_ioctl_StoresBeforeAnswer(s, d) ==
    LET s1 == Issue(s, Cmd("DQBUF", 0, d.res, d.buf.index, FALSE))
    IN  IF IsErr(d.res)
        THEN [s1 EXCEPT !.arena_index = d.buf.index,
                        !.buf_meta[d.buf.index] = MetadataOf(d.buf),
                        !.res = d.res]
        ELSE [DeviceDqbuf(s1, d.buf.index) EXCEPT
                  !.valid = @ /\ DeviceMayComplete(s, d.buf.index),
                  !.v4l2_buf = d.buf,
                  !.arena_index = d.buf.index,
                  !.buf_meta[d.buf.index] = MetadataOf(d.buf),
                  !.res = Ok(d.buf.index)]

\* The half of dequeue after the readiness wait: VIDIOC_DQBUF, answered by
\* `d`, then the index and the Metadata are stored.
dequeue_ioctl(s, d) ==
    LET s1 == Issue(s, Cmd("DQBUF", 0, d.res, d.buf.index, FALSE))
    IN  IF IsErr(d.res)
        THEN [s1 EXCEPT !.res = d.res]
        ELSE [DeviceDqbuf(s1, d.buf.index) EXCEPT
                  !.valid = @ /\ DeviceMayComplete(s, d.buf.index),
                  !.v4l2_buf = d.buf,
                  !.arena_index = d.buf.index,
                  !.buf_meta[d.buf.index] = MetadataOf(d.buf),
                  !.res = Ok(d.buf.index)]

\* dequeue() without the test for zero ready events.
dequeue_NoZeroTest(s, p, d) ==
    LET ms == unwrap_or(s.timeout, InfiniteWait)
        s1 == [Issue(s, Cmd("POLL", ms, p, p.val, FALSE)) EXCEPT
                   !.valid = @ /\ DeviceMayPoll(ms, p)]
    IN  IF IsErr(p) THEN [s1 EXCEPT !.res = p]
        ELSE dequeue_ioctl(s1, d)

\* CaptureStream::dequeue.  `p` answers the poll, `d` the VIDIOC_DQBUF.
dequeue(s, p, d) ==
    LET ms == unwrap_or(s.timeout, InfiniteWait)
        s1 == [Issue(s, Cmd("POLL", ms, p, p.val, FALSE)) EXCEPT
                   !.valid = @ /\ DeviceMayPoll(ms, p)]
    IN  IF IsErr(p) THEN [s1 EXCEPT !.res = p]
        ELSE IF p.val = 0 THEN [s1 EXCEPT !.res = TimedOut]
        ELSE dequeue_ioctl(s1, d)

\* get() that also makes the index it was given the remembered index.
get_RemembersIndex(s, index) ==
    IF index >= s.arena
    THEN [s EXCEPT !.panic = TRUE]
    ELSE [s EXCEPT !.res = Ok(index), !.ret = s.buf_meta[index],
                   !.arena_index = index]

\* CaptureStream::get.  Indexing out of range panics.
get(s, index) ==
    IF index >= s.arena
    THEN [s EXCEPT !.panic = TRUE]
    ELSE [s EXCEPT !.res = Ok(index), !.ret = s.buf_meta[index]]

\* The device's answer to the k-th VIDIOC_QBUF of one call (k from 0): it
\* rejects the one at position o.failAt with o.qerr and accepts the others.
QResp(o, k) == IF k = o.failAt THEN o.qerr ELSE Accept

\* The loop of next(): `for index in 0..self.arena.bufs.len() { self.queue(index)?; }`
RECURSIVE enqueue_all(_, _, _)
enqueue_all(s, index, o) ==
    IF index >= s.arena
    THEN s
    ELSE LET s1 == queue(s, index, QResp(o, index))
         IN  IF IsErr(s1.res) THEN s1 ELSE enqueue_all(s1, index + 1, o)

\* The rest of next() once the enqueue/start half has left the Stream as s1.
next_wait(s1, o) ==
    IF IsErr(s1.res)
    THEN s1
    ELSE LET s2 == dequeue(s1, o.presp, o.dresp)
         IN  IF IsErr(s2.res) THEN s2 ELSE get(s2, s2.res.val)

\* next() starting the device before it enqueues the slots.
next_StartFirst(s, o) ==
    next_wait(IF ~s.active
              THEN LET q == start(s, o.sresp)
                   IN  IF IsErr(q.res) THEN q ELSE enqueue_all(q, 0, o)
              ELSE queue(s, s.arena_index, QResp(o, 0)), o)

\* next() re-submitting slot 0 instead of the remembered slot.
next_RequeuesSlotZero(s, o) ==
    next_wait(IF ~s.active
              THEN LET q == enqueue_all(s, 0, o)
                   IN  IF IsErr(q.res) THEN q ELSE start(q, o.sresp)
              ELSE queue(s, 0, QResp(o, 0)), o)

\* next() re-submitting nothing while Active.
next_SkipsResubmit(s, o) ==
    next_wait(IF ~s.active
              THEN LET q == enqueue_all(s, 0, o)
                   IN  IF IsErr(q.res) THEN q ELSE start(q, o.sresp)
              ELSE [s EXCEPT !.res = Ok(0)], o)

\* CaptureStream::next
next(s, o) ==
    next_wait(IF ~s.active
              THEN LET q == enqueue_all(s, 0, o)
                   IN  IF IsErr(q.res) THEN q ELSE start(q, o.sresp)
              ELSE queue(s, s.arena_index, QResp(o, 0)), o)

\* A Duration is whole seconds plus a sub-second part, here in milliseconds.
\* Whether duration.as_millis() fits an i32 (decided without forming it).
FitsI32(duration) ==
    \/ duration.secs < I32Max \div 1000
    \/ duration.secs = I32Max \div 1000 /\ duration.subsec_millis <= I32Max % 1000
as_millis(duration) == duration.secs * 1000 + duration.subsec_millis

\* Stream::set_timeout: `duration.as_millis().try_into().unwrap()` panics
\* when the millisecond count does not fit an i32.
set_timeout(s, duration) ==
    IF ~FitsI32(duration)
    THEN [s EXCEPT !.panic = TRUE]
    ELSE [s EXCEPT !.timeout = Some(as_millis(duration))]

\* Stream::clear_timeout
clear_timeout(s) == [s EXCEPT !.timeout = None]

\* The destructor ignoring every error that carries an OS error code.
drop_IgnoresEveryErrno(s, resp) ==
    LET s1 == stop(s, resp)
    IN  IF IsErr(s1.res)
        THEN IF HasOsCode(s1.res)
             THEN s1
             ELSE [s1 EXCEPT !.panic = TRUE]
        ELSE s1

\* impl Drop for Stream: the outcome of the destructor.
drop(s, resp) ==
    LET s1 == stop(s, resp)
    IN  IF IsErr(s1.res)
        THEN IF HasOsCode(s1.res) /\ s1.res.code = ENODEV
             THEN s1
             ELSE [s1 EXCEPT !.panic = TRUE]
        ELSE s1

\* ---------------------------------------------------------------- inputs

\* Durations a caller passes to set_timeout: 100 ms, and 2147484 s, whose
\* millisecond count does not fit an i32.
Durations == {[secs |-> 0, subsec_millis |-> 100], [secs |-> 2147484, subsec_millis |-> 0]}
\* Buffer counts a caller asks for.
Requests == {1, DefaultBufCount}
\* Indices a caller passes to queue and get: every slot and one past the end.
Indices(n) == 0 .. n
\* The device's answers to the commands of one next() call.  A call ends at
\* the first answer that is a failure and consults none after it, so the
\* answers are enumerated by where the first failure falls.
AllAccepted(n) ==
    [failAt |-> n, qerr |-> OsError(ENODEV), sresp |-> Accept, presp |-> Ok(1),
     dresp |-> [res |-> Accept, buf |-> Report(0, 1)]]
Oracles(n) ==
    {[AllAccepted(n) EXCEPT !.failAt = k, !.qerr = e] : k \in Slots(n), e \in DevErrors}
        \cup {[AllAccepted(n) EXCEPT !.sresp = e] : e \in DevErrors}
        \cup {[AllAccepted(n) EXCEPT !.presp = p] : p \in PollResp \ {Ok(1)}}
        \cup {[AllAccepted(n) EXCEPT !.dresp = d] : d \in DqResp(n)}
\* The same for one dequeue() call.
DequeueAnswers(n) ==
    {[AllAccepted(n) EXCEPT !.presp = p] : p \in PollResp \ {Ok(1)}}
        \cup {[AllAccepted(n) EXCEPT !.dresp = d] : d \in DqResp(n)}
\* Answers of Arena::allocate: an error, or the granted buffer count.
AllocResp == DevErrors \cup {Ok(c) : c \in 1 .. MaxBufs}

\* --------------------------------------------------------------- actions

\* No Stream is constructed yet.
NoStream ==
    /\ life = "unbuilt"
    /\ arena = 0
    /\ arena_index = 0
    /\ buf_meta = [i \in Slots(0) |-> DefaultMetadata]
    /\ timeout = None
    /\ active = FALSE
    /\ streaming = FALSE
    /\ queued = {}
    /\ call = [op |-> "none", arg |-> 0, issued |-> <<>>, res |-> Ok(0),
               ret |-> DefaultMetadata, v4l2_buf |-> buffer_desc, pre_active |-> FALSE]
    /\ pc = [at |-> "idle", index |-> 0]
    /\ done = {}

\* No enumeration has been asked for.
NoEnumCall == [op |-> "none", issued |-> <<>>, res |-> Ok(0), list |-> <<>>]

Init ==
    /\ NoStream
    /\ video_dev = <<>>
    /\ video_call = NoEnumCall

\* Arena::allocate: the arena holds as many buffers as the device granted.
allocate(buf_count, resp) == resp

\* with_buffers sizing the Metadata collection by the requested count.
with_buffers_SizesByRequest(buf_count, resp) ==
    LET count == allocate(buf_count, resp)
    IN  /\ life = "unbuilt"
        /\ life' = IF IsErr(count) THEN "failed" ELSE "live"
        /\ arena' = IF IsErr(count) THEN 0 ELSE count.val
        /\ arena_index' = 0
        /\ buf_meta' = [i \in Slots(IF IsErr(count) THEN 0 ELSE buf_count)
                            |-> DefaultMetadata]
        /\ active' = FALSE
        /\ timeout' = None
        /\ call' = [op |-> "with_buffers", arg |-> buf_count, issued |-> <<>>,
                    res |-> count, ret |-> DefaultMetadata,
                    v4l2_buf |-> buffer_desc, pre_active |-> FALSE]
        /\ UNCHANGED <<streaming, queued, video_dev, video_call, pc, done>>

\* Stream::with_buffers
with_buffers(buf_count, resp) ==
    LET count == allocate(buf_count, resp)
    IN  /\ life = "unbuilt"
        /\ life' = IF IsErr(count) THEN "failed" ELSE "live"
        /\ arena' = IF IsErr(count) THEN 0 ELSE count.val
        /\ arena_index' = 0
        /\ buf_meta' = [i \in Slots(IF IsErr(count) THEN 0 ELSE count.val)
                            |-> DefaultMetadata]
        /\ active' = FALSE
        /\ timeout' = None
        /\ call' = [op |-> "with_buffers", arg |-> buf_count, issued |-> <<>>,
                    res |-> count, ret |-> DefaultMetadata,
                    v4l2_buf |-> buffer_desc, pre_active |-> FALSE]
        /\ UNCHANGED <<streaming, queued, video_dev, video_call, pc, done>>

\* A handler has run on the live Stream and left it as `s`.
Commit(op, arg, s, after) ==
    /\ life = "live"
    /\ s.valid
    /\ life' = IF s.panic THEN "panicked" ELSE after
    /\ arena' = s.arena
    /\ arena_index' = s.arena_index
    /\ buf_meta' = s.buf_meta
    /\ timeout' = s.timeout
    /\ active' = s.active
    /\ streaming' = s.streaming
    /\ queued' = s.queued
    /\ call' = [op |-> op, arg |-> arg, issued |-> s.issued, res |-> s.res,
                ret |-> s.ret, v4l2_buf |-> s.v4l2_buf, pre_active |-> active]
    /\ UNCHANGED <<video_dev, video_call, pc, done>>

Start == \E resp \in IoctlResp : Commit("start", 0, start(Self, resp), "live")

Stop == \E resp \in IoctlResp : Commit("stop", 0, stop(Self, resp), "live")

Queue ==
    \E index \in Indices(arena), resp \in IoctlResp :
        Commit("queue", index, queue(Self, index, resp), "live")

Dequeue ==
    \E o \in DequeueAnswers(arena) :
        Commit("dequeue", 0, dequeue(Self, o.presp, o.dresp), "live")

Get == \E index \in Indices(arena) : Commit("get", index, get(Self, index), "live")

NextCycle == \E o \in Oracles(arena) : Commit("next", 0, next(Self, o), "live")

SetTimeout ==
    \E duration \in Durations :
        Commit("set_timeout", duration.secs, set_timeout(Self, duration), "live")

ClearTimeout == Commit("clear_timeout", 0, clear_timeout(Self), "live")

\* The destructor also tells apart an error that carries no OS error code, so
\* it is given one as well.
Drop ==
    \E resp \in IoctlResp \cup {OtherError} :
        Commit("drop", 0, drop(Self, resp), "dropped")

WithBuffers ==
    \E buf_count \in Requests, resp \in AllocResp : with_buffers(buf_count, resp)

Next ==
    \/ WithBuffers
    \/ Start
    \/ Stop
    \/ Queue
    \/ Dequeue
    \/ Get
    \/ NextCycle
    \/ SetTimeout
    \/ ClearTimeout
    \/ Drop

Spec == Init /\ [][Next]_vars

\* The Stream driven by next() alone (and the timeout setters, which issue
\* no device command).
CycleNext ==
    \/ WithBuffers
    \/ NextCycle
    \/ SetTimeout
    \/ ClearTimeout

CycleSpec == Init /\ [][CycleNext]_vars

\* ------------------------------------------- enumeration (video/mod.rs)

\* The device's answer to one enumeration command: `res` accepted or an error;
\* when accepted, `tag` is the type/flags word and `data` the payload (pixel
\* format, frame size or interval) the device writes into the command's struct.
\* The answer stored for index k carries a payload that names k.
EnumTypes == {0, 1}
EnumAnswers(k) ==
    {[res |-> e, tag |-> 0, data |-> 0] : e \in DevErrors}
        \cup {[res |-> Accept, tag |-> t, data |-> 10 * k] : t \in EnumTypes}
\* The devices: every table of up to MaxEnum stored answers.  Whichever of the
\* three enumeration commands is asked, the table holds the device's answers
\* to it.
EnumTables ==
    UNION {{t \in [1 .. n -> UNION {EnumAnswers(k) : k \in 1 .. n}] :
                \A k \in 1 .. n : t[k] \in EnumAnswers(k)} : n \in 0 .. MaxEnum}
\* Past its last stored answer the device rejects the index (EINVAL).
EndOfEnumeration ==
    [res |-> OsError(CHOOSE c \in OtherErrnos : TRUE), tag |-> 0, data |-> 0]
\* v4l2::ioctl with an enumeration command for `index`.
enum_ioctl(dev, index) ==
    IF index < Len(dev) THEN dev[index + 1] ELSE EndOfEnumeration

\* The frame size / interval types the library knows (discrete, continuous,
\* stepwise); the conversions fail on any other type word.
KnownEnumTypes == {1, 2, 3}
\* FrameInterval::try_from(v4l2_frmivalenum)
FrameInterval_try_from(desc) ==
    [ok |-> desc.type_ \in KnownEnumTypes,
     val |-> [index |-> desc.index, fourcc |-> desc.pixel_format,
              width |-> desc.width, height |-> desc.height,
              typ |-> desc.type_, interval |-> desc.discrete]]
\* FrameSize::try_from(v4l2_frmsizeenum)
FrameSize_try_from(desc) ==
    [ok |-> desc.type_ \in KnownEnumTypes,
     val |-> [index |-> desc.index, fourcc |-> desc.pixel_format,
              typ |-> desc.type_, size |-> desc.discrete]]
\* FormatDescription::from(v4l2_fmtdesc)
FormatDescription_from(desc) ==
    [index |-> desc.index, typ |-> desc.type_, flags |-> desc.flags,
     description |-> desc.description, fourcc |-> desc.pixelformat]

\* The result of an enumeration: the io::Result, the Vec inside Ok, and the
\* indices the command was issued for, in issue order.
EnumResult(res, list, issued) == [res |-> res, list |-> list, issued |-> issued]

\* The loop of enum_frameintervals, entered with the struct, the Vec and the
\* indices asked so far.
RECURSIVE enum_frameintervals_loop(_, _, _, _)
enum_frameintervals_loop(dev, v4l2_struct, frameintervals, issued) ==
    LET ret == enum_ioctl(dev, v4l2_struct.index)
        asked == Append(issued, v4l2_struct.index)
        filled == [v4l2_struct EXCEPT !.type_ = ret.tag, !.discrete = ret.data]
        frame_interval == FrameInterval_try_from(filled)
    IN  IF IsErr(ret.res)
        THEN IF v4l2_struct.index = 0
             THEN EnumResult(ret.res, <<>>, asked)
             ELSE EnumResult(Ok(0), frameintervals, asked)
        ELSE enum_frameintervals_loop(
                 dev, [filled EXCEPT !.index = @ + 1],
                 IF frame_interval.ok
                 THEN Append(frameintervals, frame_interval.val)
                 ELSE frameintervals,
                 asked)

\* VideoBase::enum_frameintervals
enum_frameintervals(dev, fourcc, width, height) ==
    enum_frameintervals_loop(
        dev,
        [index |-> 0, pixel_format |-> fourcc, width |-> width, height |-> height,
         type_ |-> 0, discrete |-> 0],
        <<>>, <<>>)

\* The loop of enum_framesizes ending at the first entry whose conversion
\* fails.
RECURSIVE enum_framesizes_loop_StopsAtBadEntry(_, _, _, _)
enum_framesizes_loop_StopsAtBadEntry(dev, v4l2_struct, framesizes, issued) ==
    LET ret == enum_ioctl(dev, v4l2_struct.index)
        asked == Append(issued, v4l2_struct.index)
        filled == [v4l2_struct EXCEPT !.type_ = ret.tag, !.discrete = ret.data]
        frame_size == FrameSize_try_from(filled)
    IN  IF IsErr(ret.res)
        THEN IF v4l2_struct.index = 0
             THEN EnumResult(ret.res, <<>>, asked)
             ELSE EnumResult(Ok(0), framesizes, asked)
        ELSE IF ~frame_size.ok
        THEN EnumResult(Ok(0), framesizes, asked)
        ELSE enum_framesizes_loop_StopsAtBadEntry(
                 dev, [filled EXCEPT !.index = @ + 1],
                 Append(framesizes, frame_size.val), asked)

\* The loop of enum_framesizes.
RECURSIVE enum_framesizes_loop(_, _, _, _)
enum_framesizes_loop(dev, v4l2_struct, framesizes, issued) ==
    LET ret == enum_ioctl(dev, v4l2_struct.index)
        asked == Append(issued, v4l2_struct.index)
        filled == [v4l2_struct EXCEPT !.type_ = ret.tag, !.discrete = ret.data]
        frame_size == FrameSize_try_from(filled)
    IN  IF IsErr(ret.res)
        THEN IF v4l2_struct.index = 0
             THEN EnumResult(ret.res, <<>>, asked)
             ELSE EnumResult(Ok(0), framesizes, asked)
        ELSE enum_framesizes_loop(
                 dev, [filled EXCEPT !.index = @ + 1],
                 IF frame_size.ok
                 THEN Append(framesizes, frame_size.val)
                 ELSE framesizes,
                 asked)

\* VideoBase::enum_framesizes
enum_framesizes(dev, fourcc) ==
    enum_framesizes_loop(
        dev, [index |-> 0, pixel_format |-> fourcc, type_ |-> 0, discrete |-> 0],
        <<>>, <<>>)

\* The `while ret.is_ok()` loop of enum_formats, entered with the struct the
\* latest accepted command filled in.
RECURSIVE enum_formats_loop(_, _, _, _)
enum_formats_loop(dev, v4l2_fmt, formats, issued) ==
    LET pushed == Append(formats, FormatDescription_from(v4l2_fmt))
        next_fmt == [v4l2_fmt EXCEPT !.index = @ + 1, !.description = 0]
        ret == enum_ioctl(dev, next_fmt.index)
        asked == Append(issued, next_fmt.index)
    IN  IF IsErr(ret.res)
        THEN EnumResult(Ok(0), pushed, asked)
        ELSE enum_formats_loop(
                 dev,
                 [next_fmt EXCEPT !.flags = ret.tag, !.pixelformat = ret.data,
                                  !.description = ret.data],
                 pushed, asked)

\* enum_formats returning the device's error when index 0 is rejected.
enum_formats_FailsWhenEmpty(dev, typ) ==
    LET v4l2_fmt == [index |-> 0, type_ |-> typ, flags |-> 0, pixelformat |-> 0,
                     description |-> 0]
        ret == enum_ioctl(dev, v4l2_fmt.index)
    IN  IF IsErr(ret.res)
        THEN EnumResult(ret.res, <<>>, <<0>>)
        ELSE enum_formats_loop(
                 dev,
                 [v4l2_fmt EXCEPT !.flags = ret.tag, !.pixelformat = ret.data,
                                  !.description = ret.data],
                 <<>>, <<0>>)

\* VideoBase::enum_formats
enum_formats(dev, typ) ==
    LET v4l2_fmt == [index |-> 0, type_ |-> typ, flags |-> 0, pixelformat |-> 0,
                     description |-> 0]
        ret == enum_ioctl(dev, v4l2_fmt.index)
    IN  IF IsErr(ret.res)
        THEN EnumResult(Ok(0), <<>>, <<0>>)
        ELSE enum_formats_loop(
                 dev,
                 [v4l2_fmt EXCEPT !.flags = ret.tag, !.pixelformat = ret.data,
                                  !.description = ret.data],
                 <<>>, <<0>>)

\* What a caller passes: pixel formats, a frame size, buffer types.
FourCCs == {"YUYV", "MJPG"}
FrameWidths == {640}
FrameHeights == {480}
BufTypes == {1, 2}

\* An enumeration function has run and returned `r`.
EnumCommit(op, r) ==
    /\ video_call' = [op |-> op, issued |-> r.issued, res |-> r.res, list |-> r.list]
    /\ UNCHANGED <<life, arena, arena_index, buf_meta, timeout, active, streaming,
                   queued, call, video_dev, pc, done>>

EnumFrameintervals ==
    \E fourcc \in FourCCs, width \in FrameWidths, height \in FrameHeights :
        EnumCommit("enum_frameintervals",
                   enum_frameintervals(video_dev, fourcc, width, height))

EnumFramesizes ==
    \E fourcc \in FourCCs :
        EnumCommit("enum_framesizes", enum_framesizes(video_dev, fourcc))

EnumFormats ==
    \E typ \in BufTypes : EnumCommit("enum_formats", enum_formats(video_dev, typ))

\* A device with any table of answers, and no Stream on it.
EnumInit ==
    /\ NoStream
    /\ video_dev \in EnumTables
    /\ video_call = NoEnumCall

EnumNext ==
    \/ EnumFrameintervals
    \/ EnumFramesizes
    \/ EnumFormats

EnumSpec == EnumInit /\ [][EnumNext]_vars

\* The first index the device rejects.
FirstRejected ==
    CHOOSE n \in 0 .. Len(video_dev) :
        /\ \A k \in 1 .. n : ~IsErr(video_dev[k].res)
        /\ n < Len(video_dev) => IsErr(video_dev[n + 1].res)
\* The indices 0 .. n in ascending order.
UpTo(n) == [i \in 1 .. n + 1 |-> i - 1]

\* ------------------------------- next() followed statement by statement

\* To see whether a next() returns, the call is followed one statement at a
\* time: `pc.at` is the statement it stands before ("idle" between calls) and
\* `pc.index` the loop variable of its `for index in 0..bufs.len()`.  The
\* readiness wait is the one statement that can block: poll() returns once a
\* completed buffer is ready or the timeout has elapsed.
At(at, index) == [at |-> at, index |-> index]

\* The Stream as the running call has left it so far.
Running == [Self EXCEPT !.issued = call.issued]

\* The `else` branch of next() passing the wait with nothing re-submitted.
resubmit_Nothing(s, resp) == [s EXCEPT !.res = Ok(0)]

\* The `else` branch of next(): `self.queue(self.arena_index)?`
resubmit(s, resp) == queue(s, s.arena_index, resp)

\* The device accepts every command it can accept: it rejects only the
\* enqueue of a slot it already holds.
AnswerQbuf(index) ==
    IF index \in queued THEN OsError(CHOOSE c \in OtherErrnos : TRUE) ELSE Accept

\* poll() returns a positive count once a completed buffer is ready, and zero
\* when a timeout was given and nothing is ready; VIDIOC_DQBUF then reports one
\* of the completed buffers.
AnswerWait ==
    IF done # {}
    THEN {[presp |-> Ok(1), dresp |-> [res |-> Accept, buf |-> Report(i, q)]] :
              i \in done, q \in 1 .. MaxSeq}
    ELSE IF timeout.some
    THEN {[presp |-> Ok(0), dresp |-> [res |-> Accept, buf |-> buffer_desc]]}
    ELSE {}

\* A statement of the running call has left the Stream as `s`: a `?` that sees
\* an error returns it, otherwise the call goes on at `to`, or returns when
\* there is no statement left.
Proceed(s, to) ==
    /\ s.valid
    /\ ~s.panic
    /\ arena' = s.arena
    /\ arena_index' = s.arena_index
    /\ buf_meta' = s.buf_meta
    /\ timeout' = s.timeout
    /\ active' = s.active
    /\ streaming' = s.streaming
    /\ queued' = s.queued
    /\ call' = [call EXCEPT !.issued = s.issued, !.res = s.res, !.ret = s.ret,
                            !.v4l2_buf = s.v4l2_buf]
    /\ pc' = IF IsErr(s.res) THEN At("idle", 0) ELSE to
    /\ UNCHANGED <<life, video_dev, video_call>>

\* The caller calls next().
CycleCall ==
    /\ life = "live"
    /\ pc.at = "idle"
    /\ pc' = IF active THEN At("resubmit", 0) ELSE At("enqueue", 0)
    /\ call' = [op |-> "next", arg |-> 0, issued |-> <<>>, res |-> Ok(0),
                ret |-> DefaultMetadata, v4l2_buf |-> buffer_desc,
                pre_active |-> active]
    /\ UNCHANGED <<life, arena, arena_index, buf_meta, timeout, active, streaming,
                   queued, video_dev, video_call, done>>

\* One iteration of `for index in 0..self.arena.bufs.len() { self.queue(index)?; }`
CycleEnqueue ==
    /\ pc.at = "enqueue"
    /\ pc.index < arena
    /\ Proceed(queue(Running, pc.index, AnswerQbuf(pc.index)),
               IF pc.index + 1 < arena
               THEN At("enqueue", pc.index + 1)
               ELSE At("start", 0))
    /\ UNCHANGED done

\* `self.start()?`
CycleStart ==
    /\ pc.at = "start"
    /\ Proceed(start(Running, Accept), At("wait", 0))
    /\ UNCHANGED done

\* `self.queue(self.arena_index)?`
CycleResubmit ==
    /\ pc.at = "resubmit"
    /\ Proceed(resubmit(Running, AnswerQbuf(arena_index)), At("wait", 0))
    /\ UNCHANGED done

\* `let index = self.dequeue()?; self.get(index)`: enabled once poll() can
\* return.
CycleWait ==
    /\ pc.at = "wait"
    /\ \E o \in AnswerWait :
           /\ Proceed(next_wait(Running, o), At("idle", 0))
           /\ done' = IF o.presp = Ok(1) THEN done \ {o.dresp.buf.index} ELSE done

\* The statements of a running next().
CycleStep ==
    \/ CycleEnqueue
    \/ CycleStart
    \/ CycleResubmit
    \/ CycleWait

\* The device, streaming, completes a buffer of its queue.
DeviceComplete ==
    /\ streaming
    /\ \E i \in queued \ done : done' = done \cup {i}
    /\ UNCHANGED <<life, arena, arena_index, buf_meta, timeout, active, streaming,
                   queued, call, video_dev, video_call, pc>>

LiveNext ==
    \/ WithBuffers
    \/ pc.at = "idle" /\ SetTimeout
    \/ pc.at = "idle" /\ ClearTimeout
    \/ CycleCall
    \/ CycleStep
    \/ DeviceComplete

\* A call runs on the caller's thread to its end, so a statement that can be
\* executed is executed; and the device, while it streams with a buffer queued,
\* eventually completes one.
LiveSpec ==
    /\ Init
    /\ [][LiveNext]_vars
    /\ WF_vars(CycleStep)
    /\ WF_vars(DeviceComplete)

\* ------------------------------------------------- reading the latest call

\* The commands of the latest call that are `c`, in issue order.
Issued(c) == SelectSeq(call.issued, LAMBDA e : e.cmd = c)
IssuedNow(c) == SelectSeq(call'.issued, LAMBDA e : e.cmd = c)

\* ------------------------------------------------------------------ claims

\* C1: in every reachable state the `active` flag is true exactly when the
\* device has accepted a start-streaming command from this Stream and has not
\* accepted a stop-streaming command from it since.
C1_ActiveIffDeviceStreaming == active = streaming

\* C1 witness: the device has rejected a stop while the Stream was Active,
\* and the Stream is still Active.
C1_Witness ==
    /\ life = "live"
    /\ call.op = "stop"
    /\ IsErr(call.res)
    /\ active
    /\ streaming

\* C2 (the claim as stated): a next-buffer cycle never issues an enqueue
\* command for a slot that is in the queued set, whatever the outcome of the
\* cycles before it.
C2_NeverEnqueuesQueuedSlot ==
    call.op = "next" =>
        \A i \in 1 .. Len(call.issued) :
            call.issued[i].cmd = "QBUF" => ~call.issued[i].dup

\* C3 (the claim as stated): a cycle call made while Idle issues one enqueue
\* command for every slot 0 .. count-1 in ascending order and then exactly one
\* start command, and the Stream is Active if every command was accepted.
C3_IdleCycleEnqueuesAllThenStarts ==
    (call.op = "next" /\ ~call.pre_active) =>
        /\ Len(call.issued) >= arena + 1
        /\ Len(Issued("QBUF")) = arena
        /\ \A i \in 1 .. arena :
               call.issued[i].cmd = "QBUF" /\ call.issued[i].arg = i - 1
        /\ Len(Issued("STREAMON")) = 1
        /\ call.issued[arena + 1].cmd = "STREAMON"
        /\ ((\A i \in 1 .. Len(call.issued) : call.issued[i].ok) => active)

\* C3 (amended): a cycle call made while Idle issues enqueue commands for the
\* slots 0, 1, ... in ascending order and stops at the first command the device
\* rejects; once all `count` are accepted it issues exactly one start command,
\* and only after that is accepted the readiness wait.  The Stream is Active
\* afterwards exactly when the start command was issued and accepted.
C3_IdleCyclePrimesUntilRejected ==
    (call.op = "next" /\ ~call.pre_active) =>
        LET is == call.issued
            m == Len(call.issued)
        IN  /\ m >= 1
            /\ \A i \in 1 .. m :
                   /\ i <= arena => is[i].cmd = "QBUF" /\ is[i].arg = i - 1
                   /\ i = arena + 1 => is[i].cmd = "STREAMON"
                   /\ i > arena + 1 => is[i].cmd \in {"POLL", "DQBUF"}
                   /\ i < m => is[i].ok
            /\ m <= arena + 1 => ~is[m].ok
            /\ active <=> (m >= arena + 1 /\ is[arena + 1].ok)

\* C3 witness: an Idle Stream of two or more slots was primed, started and
\* returned a buffer.
C3_Witness ==
    /\ call.op = "next"
    /\ ~call.pre_active
    /\ ~IsErr(call.res)
    /\ arena >= 2
    /\ active

C5_ZeroReadyIsTimeout ==
    (/\ call.op \in {"dequeue", "next"}
     /\ \E i \in 1 .. Len(call.issued) :
            call.issued[i].cmd = "POLL" /\ call.issued[i].ok /\ call.issued[i].out = 0)
        => /\ call.res.kind = "TimedOut"
           /\ call.res \notin DevErrors
           /\ Len(Issued("DQBUF")) = 0

\* C5 witness: a cycle on an Active Stream whose wait reported zero events.
C5_Witness ==
    /\ call.op = "next"
    /\ call.pre_active
    /\ call.res = TimedOut
    /\ Len(Issued("POLL")) = 1
    /\ Issued("POLL")[1].out = 0

\* The accepted dequeue commands of the call a step makes (at most one), as
\* positions in its command list.
DequeuedNow ==
    {i \in 1 .. Len(call'.issued) : call'.issued[i].cmd = "DQBUF" /\ call'.issued[i].ok}

\* C6: a successful dequeue that reports slot K stores exactly the reported
\* bytesused, flags, field, timestamp and sequence at K; get(K) and the cycle
\* return the Metadata stored at K; and every step of the Stream leaves the
\* Metadata of every slot its dequeue command did not report unchanged.
C6_MetadataFidelity ==
    [][life = "live" =>
           /\ DequeuedNow = {} => buf_meta' = buf_meta
           /\ \A i \in DequeuedNow :
                  LET K == call'.issued[i].out
                      reported == call'.v4l2_buf
                  IN  /\ buf_meta'[K].bytesused = reported.bytesused
                      /\ buf_meta'[K].flags = reported.flags
                      /\ buf_meta'[K].field = reported.field
                      /\ buf_meta'[K].timestamp.sec = reported.timestamp.tv_sec
                      /\ buf_meta'[K].timestamp.usec = reported.timestamp.tv_usec
                      /\ buf_meta'[K].sequence = reported.sequence
                      /\ \A k \in Slots(arena) \ {K} : buf_meta'[k] = buf_meta[k]
           /\ (call'.op = "get" /\ call'.arg < arena) =>
                  ~IsErr(call'.res) /\ call'.ret = buf_meta[call'.arg]
           /\ (call'.op = "next" /\ ~IsErr(call'.res)) =>
                  call'.ret = buf_meta'[call'.res.val]]_vars

\* C6 witness: get(1) returns what a dequeue reported for slot 1 with the
\* second report, after slot 0 was dequeued with another report.
C6_Witness ==
    /\ call.op = "get"
    /\ call.arg = 1
    /\ arena >= 2
    /\ call.ret.bytesused = Report(1, 2).bytesused
    /\ call.ret.sequence = Report(1, 2).sequence
    /\ buf_meta[0].sequence = Report(0, 1).sequence

\* C7: driven by cycle calls alone, after each cycle that returns slot K
\* every slot but K is queued with the device and K is not, the dequeue that
\* reported K is the last command of that cycle, and no step other than a
\* cycle call issues a command or changes what is queued.
C7_OneSlotWithCaller ==
    [][life = "live" =>
           /\ (call'.op = "next" /\ ~IsErr(call'.res)) =>
                  /\ queued' = Slots(arena) \ {call'.res.val}
                  /\ call'.issued[Len(call'.issued)].cmd = "DQBUF"
                  /\ call'.issued[Len(call'.issued)].out = call'.res.val
           /\ call'.op # "next" => (call'.issued = <<>> /\ queued' = queued)]_vars

\* C7 witness: a second cycle returned a slot of a Stream of two or more
\* slots, the others being queued.
C7_Witness ==
    /\ call.op = "next"
    /\ call.pre_active
    /\ ~IsErr(call.res)
    /\ arena >= 2
    /\ queued = Slots(arena) \ {call.res.val}

\* C8: destroying a Stream issues exactly one stop command, Idle or Active;
\* the destruction completes normally when the stop is accepted or fails with
\* ENODEV, and panics when it fails with any other error, with or without an
\* OS error code.
C8_DropStopsAndIgnoresOnlyENODEV ==
    call.op = "drop" =>
        /\ Len(call.issued) = 1
        /\ call.issued[1].cmd = "STREAMOFF"
        /\ (~IsErr(call.res) \/ call.res = OsError(ENODEV)) => life = "dropped"
        /\ (IsErr(call.res) /\ call.res # OsError(ENODEV)) => life = "panicked"

\* C8 witness: an Idle Stream was destroyed, the stop failed with ENODEV and
\* the destruction completed.
C8_Witness ==
    /\ call.op = "drop"
    /\ ~call.pre_active
    /\ call.res = OsError(ENODEV)
    /\ life = "dropped"

\* C9: start() issues exactly one start command; accepted, the Stream is
\* Active and start() succeeds; rejected, start() returns the device's error
\* and the flag is as it was, so an Idle Stream stays Idle.
C9_StartOnce ==
    call.op = "start" =>
        /\ Len(call.issued) = 1
        /\ call.issued[1].cmd = "STREAMON"
        /\ call.issued[1].ok => (active /\ ~IsErr(call.res))
        /\ ~call.issued[1].ok =>
               (call.res \in DevErrors /\ active = call.pre_active)

\* C9 witness: the device rejected the start of an Idle Stream.
C9_Witness ==
    /\ call.op = "start"
    /\ ~call.pre_active
    /\ IsErr(call.res)
    /\ ~active
    /\ life = "live"

\* C10: stop() on an Idle Stream issues exactly one stop command and, accepted
\* or rejected, leaves the flag Idle and the remembered index, the Metadata
\* and the timeout as they were.
C10_StopWhenIdle ==
    [][(life = "live" /\ ~active /\ call'.op = "stop") =>
           /\ Len(call'.issued) = 1
           /\ call'.issued[1].cmd = "STREAMOFF"
           /\ active' = FALSE
           /\ arena_index' = arena_index
           /\ buf_meta' = buf_meta
           /\ timeout' = timeout]_vars

\* C10 witness: the device rejected the stop of an Idle Stream that has a
\* timeout set and Metadata stored.
C10_Witness ==
    /\ call.op = "stop"
    /\ ~call.pre_active
    /\ IsErr(call.res)
    /\ timeout.some
    /\ \E k \in Slots(arena) : buf_meta[k] # DefaultMetadata

\* C11 (the claim as stated): queue(index) and get(index) called with an index
\* that is not below the arena's buffer count return an error value to the
\* caller and leave the Stream usable; they do not abort the caller.
C11_OutOfRangeIndexReturnsError ==
    (call.op \in {"queue", "get"} /\ call.arg >= arena) =>
        (life = "live" /\ IsErr(call.res))

\* C12: every command a call issues before its last was accepted, so a
\* rejected command or a failed readiness wait is issued once and is the last
\* command of its call, and the call returns that very error; a cycle priming
\* an Idle Stream whose enqueue is rejected has issued only the enqueues up to
\* the rejected one, in slot order, no start, wait or dequeue, and the Stream
\* is still Idle.
C12_FailureEndsCallAndIsReturned ==
    LET is == call.issued
        m == Len(call.issued)
    IN  /\ \A i \in 1 .. m :
               ~is[i].ok =>
                   /\ i = m
                   /\ call.res \in DevErrors \cup {OtherError}
                   /\ call.res.code = is[i].code
        /\ (call.op = "next" /\ ~call.pre_active /\ m >= 1
                /\ is[m].cmd = "QBUF" /\ ~is[m].ok) =>
               /\ \A i \in 1 .. m : is[i].cmd = "QBUF" /\ is[i].arg = i - 1
               /\ ~active

\* C12 witness: priming a Stream of two slots, the enqueue of slot 0 was
\* rejected with ENODEV; the cycle returned ENODEV after that one command.
C12_Witness ==
    /\ call.op = "next"
    /\ ~call.pre_active
    /\ arena = 2
    /\ Len(call.issued) = 1
    /\ call.issued[1].cmd = "QBUF"
    /\ ~call.issued[1].ok
    /\ call.res = OsError(ENODEV)
    /\ ~active

\* C13: a dequeue() or cycle call returns an index exactly when its one
\* dequeue command was accepted, the index it returns is the index the device
\* reported on that command, and the remembered index becomes that index; a
\* step with no accepted dequeue command returns no index and leaves the
\* remembered index unchanged.  Step by step, the returned indices are the
\* reported indices in the same order, whatever order the slots were enqueued.
C13_ReturnsReportedIndexInOrder ==
    [][life = "live" =>
           /\ DequeuedNow = {} =>
                  /\ arena_index' = arena_index
                  /\ call'.op \in {"dequeue", "next"} => IsErr(call'.res)
           /\ \A i \in DequeuedNow :
                  /\ DequeuedNow = {i}
                  /\ call'.op \in {"dequeue", "next"}
                  /\ ~IsErr(call'.res)
                  /\ call'.res.val = call'.issued[i].out
                  /\ arena_index' = call'.issued[i].out]_vars

\* C13 witness: the first cycle of a Stream of two slots, which enqueued slot
\* 0 before slot 1, returned slot 1 because the device reported it first.
C13_Witness ==
    /\ call.op = "next"
    /\ ~call.pre_active
    /\ arena = 2
    /\ ~IsErr(call.res)
    /\ call.res.val = 1
    /\ arena_index = 1
    /\ call.issued[Len(call.issued)].out = 1

\* C14: get(index) with an index below the buffer count issues no device
\* command, succeeds, and leaves the Idle/Active flag, the device's streaming
\* state and queued set, the remembered index, every Metadata, the buffer
\* count and the timeout unchanged.
C14_GetIsPureRead ==
    [][(life = "live" /\ call'.op = "get" /\ call'.arg < arena) =>
           /\ call'.issued = <<>>
           /\ ~IsErr(call'.res)
           /\ life' = "live"
           /\ UNCHANGED <<arena, arena_index, buf_meta, timeout, active,
                          streaming, queued>>]_vars

\* C14 witness: get(0) on an Active Stream of two slots that has a timeout
\* set, remembers slot 1 and has a slot queued with the device.
C14_Witness ==
    /\ life = "live"
    /\ call.op = "get"
    /\ call.arg = 0
    /\ arena = 2
    /\ active
    /\ arena_index = 1
    /\ timeout.some
    /\ queued # {}

\* C15 (the claim as stated): a Stream starts with no timeout; while no
\* timeout is configured every readiness wait is an infinite wait and neither
\* dequeue() nor the cycle returns Timeout; after set_timeout(T), for every
\* duration T, the timeout is T and every readiness wait is bounded by the
\* configured milliseconds; set_timeout and clear_timeout return to the caller
\* having changed nothing but the timeout.
C15_TimeoutGovernsEveryWait ==
    [][/\ call'.op = "with_buffers" /\ life' = "live" => timeout' = None
       /\ life = "live" =>
              /\ \A i \in 1 .. Len(call'.issued) :
                     call'.issued[i].cmd = "POLL" =>
                         call'.issued[i].arg = unwrap_or(timeout, InfiniteWait)
              /\ (~timeout.some /\ call'.op \in {"dequeue", "next"}) =>
                     call'.res # TimedOut
              /\ call'.op = "set_timeout" =>
                     /\ life' = "live"
                     /\ timeout'.some
                     /\ timeout'.ms \div 1000 = call'.arg
              /\ call'.op = "clear_timeout" => (life' = "live" /\ timeout' = None)
              /\ call'.op \in {"set_timeout", "clear_timeout"} =>
                     /\ call'.issued = <<>>
                     /\ UNCHANGED <<arena, arena_index, buf_meta, active,
                                    streaming, queued>>]_vars

\* C16: a constructed Stream holds exactly one Metadata entry per slot the
\* device granted, whatever count was requested, at construction and ever
\* after, so every index below the granted count addresses an entry; a
\* construction whose allocation fails produces no Stream.
C16_OneMetadataPerGrantedSlot ==
    /\ life \in {"live", "dropped", "panicked"} =>
           (arena >= 1 /\ DOMAIN buf_meta = Slots(arena))
    /\ call.op = "with_buffers" =>
           IF IsErr(call.res)
           THEN life = "failed"
           ELSE /\ life = "live"
                /\ arena = call.res.val
                /\ DOMAIN buf_meta = Slots(call.res.val)
                /\ \A i \in Slots(call.res.val) : buf_meta[i] = DefaultMetadata

\* C16 witness: four buffers were requested, the device granted two, and the
\* Stream holds Metadata for slots 0 and 1 only.
C16_Witness ==
    /\ call.op = "with_buffers"
    /\ call.arg = DefaultBufCount
    /\ life = "live"
    /\ arena = 2
    /\ DOMAIN buf_meta = {0, 1}

\* C17: enum_formats never returns an error; it returns an empty list when
\* the command for index 0 is rejected, and otherwise one description per
\* accepted command, for the indices 0, 1, 2, ... in index order, each
\* carrying what the device answered for its index, and it stops at the first
\* index the device rejects, which is the last command it issues.
C17_EnumFormatsListsUntilRejected ==
    video_call.op = "enum_formats" =>
        /\ ~IsErr(video_call.res)
        /\ Len(video_call.list) = FirstRejected
        /\ \A i \in 1 .. FirstRejected :
               /\ video_call.list[i].index = i - 1
               /\ video_call.list[i].fourcc = video_dev[i].data
               /\ video_call.list[i].description = video_dev[i].data
               /\ video_call.list[i].flags = video_dev[i].tag
        /\ video_call.issued = UpTo(FirstRejected)

\* C17 witness: the device rejects index 0 and would accept index 1;
\* enum_formats has returned an empty list as a success.
C17_Witness ==
    /\ video_call.op = "enum_formats"
    /\ Len(video_dev) >= 2
    /\ IsErr(video_dev[1].res)
    /\ ~IsErr(video_dev[2].res)
    /\ ~IsErr(video_call.res)
    /\ video_call.list = <<>>

\* C18: enum_frameintervals and enum_framesizes issue the command for the
\* indices 0, 1, 2, ... up to the first one the device rejects; rejected at
\* index 0 they return the device's error; rejected later they return
\* successfully the entries of the accepted indices whose conversion
\* succeeded, in index order, an entry whose conversion fails being left out
\* without ending the enumeration.
C18_EnumSizesAndIntervals ==
    video_call.op \in {"enum_frameintervals", "enum_framesizes"} =>
        LET n == FirstRejected
            kept == {k \in 1 .. FirstRejected : video_dev[k].tag \in KnownEnumTypes}
            list == video_call.list
        IN  /\ video_call.issued = UpTo(n)
            /\ n = 0 =>
                   /\ IsErr(video_call.res)
                   /\ video_call.res = enum_ioctl(video_dev, 0).res
            /\ n > 0 =>
                   /\ ~IsErr(video_call.res)
                   /\ {list[i].index + 1 : i \in 1 .. Len(list)} = kept
                   /\ \A i, j \in 1 .. Len(list) :
                          i < j => list[i].index < list[j].index
                   /\ \A i \in 1 .. Len(list) :
                          IF video_call.op = "enum_framesizes"
                          THEN list[i].size = video_dev[list[i].index + 1].data
                          ELSE list[i].interval = video_dev[list[i].index + 1].data

\* C18 witness: of three accepted indices the middle one fails to convert;
\* enum_framesizes has returned the entries of index 0 and index 2.
C18_Witness ==
    /\ video_call.op = "enum_framesizes"
    /\ Len(video_dev) = 3
    /\ FirstRejected = 3
    /\ video_dev[2].tag \notin KnownEnumTypes
    /\ ~IsErr(video_call.res)
    /\ Len(video_call.list) = 2
    /\ video_call.list[1].index = 0
    /\ video_call.list[2].index = 2

\* C19: a dequeue() that fails, with Timeout from the readiness wait or with
\* an error from the wait or from the dequeue command, leaves the remembered
\* index, every Metadata entry, the Idle/Active flag and the timeout as they
\* were before the call, and the Stream usable.
C19_FailedDequeueChangesNothing ==
    [][(life = "live" /\ call'.op = "dequeue" /\ IsErr(call'.res)) =>
           /\ life' = "live"
           /\ arena_index' = arena_index
           /\ buf_meta' = buf_meta
           /\ active' = active
           /\ timeout' = timeout]_vars

\* C19 witness: the dequeue command of a dequeue() was rejected on an Active
\* Stream that remembers slot 1 and holds Metadata stored for slot 0.
C19_Witness ==
    /\ life = "live"
    /\ call.op = "dequeue"
    /\ Len(call.issued) = 2
    /\ call.issued[2].cmd = "DQBUF"
    /\ ~call.issued[2].ok
    /\ call.res \in DevErrors
    /\ active
    /\ arena_index = 1
    /\ buf_meta[0] # DefaultMetadata

\* C20: with a device that accepts every command and eventually completes a
\* queued buffer, every next() call returns: with no timeout configured it
\* returns a buffer, with a timeout configured a buffer or Timeout.  (A call
\* one of whose commands the device rejected returns as well.)
C20_CycleReturns ==
    (pc.at # "idle") ~>
        (/\ pc.at = "idle"
         /\ call.op = "next"
         /\ \/ ~IsErr(call.res)
            \/ call.res = TimedOut /\ timeout.some
            \/ \E i \in 1 .. Len(call.issued) : ~call.issued[i].ok)

\* C20 witness: a second cycle on a Stream of one slot with no timeout, which
\* had to wait for the slot it re-submitted, has returned it.
C20_Witness ==
    /\ pc.at = "idle"
    /\ call.op = "next"
    /\ call.pre_active
    /\ arena = 1
    /\ ~timeout.some
    /\ ~IsErr(call.res)
    /\ Len(call.issued) = 3

====
